---- MODULE Spec2Model ----
(***************************************************************************)
(* Provider-parser streaming path of llm-forge: the HuggingFace and the    *)
(* Together (OpenAI-compatible) validateStreamChunk / parseStreamChunk,    *)
(* as listed in tests/reports/streaming-qa-report.md.                      *)
(*                                                                         *)
(* A raw chunk is an already-deserialized JSON value.  JavaScript values   *)
(* are tagged records [t |-> tag, v |-> payload]; property reads, the `in` *)
(* operator, truthiness, optional chaining and || follow JavaScript.       *)
(***************************************************************************)
EXTENDS Integers, Sequences, FiniteSets, TLC

\* ------------------------------------------------------------------------
\* Bounds
\* ------------------------------------------------------------------------
MaxChoices == 2   \* longest choices array submitted
MaxErrors == 1    \* most diagnostics kept in the parser's error list
MaxTime == 2      \* timestamps the clock may return
MaxCalls == 3     \* most calls of the async parseStreamChunk in one run
MaxSpans == 2     \* most agent spans started in one execution context
MaxArtifacts == 1 \* most artifacts attached in one execution context

\* ------------------------------------------------------------------------
\* JavaScript values
\* ------------------------------------------------------------------------
Undefined == [t |-> "undefined"]
Null == [t |-> "null"]
Bool(b) == [t |-> "bool", v |-> b]
Num(n) == [t |-> "num", v |-> n]
Str(s) == [t |-> "str", v |-> s]
Arr(a) == [t |-> "arr", v |-> a]
Obj(o) == [t |-> "obj", v |-> o]
EmptyObj == Obj(<<>>)

\* ToBoolean(x): undefined, null, false, 0 and "" are falsy.
Truthy(x) ==
  CASE x.t \in {"undefined", "null"} -> FALSE
    [] x.t = "bool" -> x.v
    [] x.t = "num" -> x.v # 0
    [] x.t = "str" -> x.v # ""
    [] OTHER -> TRUE

\* typeof x === 'object' (true of null, arrays and plain objects).
TypeofObject(x) == x.t \in {"null", "arr", "obj"}

\* x === null || x === undefined
Nullish(x) == x.t \in {"undefined", "null"}

\* Array.isArray(x)
IsArray(x) == x.t = "arr"

\* `k in x` for a non-null object x and a field name k.
In(k, x) == x.t = "obj" /\ k \in DOMAIN x.v

\* x.k for a non-nullish x: a missing property reads as undefined, and so
\* does a named property of a primitive or of an array.
Get(x, k) == IF In(k, x) THEN x.v[k] ELSE Undefined

\* x?.k
OptGet(x, k) == IF Nullish(x) THEN Undefined ELSE Get(x, k)

\* a || b
Or(a, b) == IF Truthy(a) THEN a ELSE b

\* ------------------------------------------------------------------------
\* validateStreamChunk
\* ------------------------------------------------------------------------
Accept == [ok |-> TRUE, diag |-> <<>>]
Reject(msg) == [ok |-> FALSE, diag |-> <<msg>>]

\* Variant: any choices field is taken for the TGI format, array or not.
HFValidateAnyChoices(chunk) ==
  IF ~Truthy(chunk) \/ ~TypeofObject(chunk)
  THEN Reject("Invalid chunk: must be an object")
  ELSE IF Truthy(Get(chunk, "error")) THEN Accept
  ELSE IF In("token", chunk) THEN Accept
  ELSE IF In("choices", chunk) THEN Accept
  ELSE IF In("generated_text", chunk) \/ In("conversation", chunk) THEN Accept
  ELSE Reject("Invalid chunk: unrecognized format")

\* Variant: the token field is tested for truthiness, like the error field.
HFValidateTruthyToken(chunk) ==
  IF ~Truthy(chunk) \/ ~TypeofObject(chunk)
  THEN Reject("Invalid chunk: must be an object")
  ELSE IF Truthy(Get(chunk, "error")) THEN Accept
  ELSE IF Truthy(Get(chunk, "token")) THEN Accept
  ELSE IF In("choices", chunk) /\ IsArray(Get(chunk, "choices")) THEN Accept
  ELSE IF In("generated_text", chunk) \/ In("conversation", chunk) THEN Accept
  ELSE Reject("Invalid chunk: unrecognized format")

HFValidateStreamChunk(chunk) ==
  IF ~Truthy(chunk) \/ ~TypeofObject(chunk)
  THEN Reject("Invalid chunk: must be an object")
  ELSE IF Truthy(Get(chunk, "error")) THEN Accept
  ELSE IF In("token", chunk) THEN Accept
  ELSE IF In("choices", chunk) /\ IsArray(Get(chunk, "choices")) THEN Accept
  ELSE IF In("generated_text", chunk) \/ In("conversation", chunk) THEN Accept
  ELSE Reject("Invalid chunk: unrecognized format")

\* The Together validator "only checks if chunk is an object".
TogetherValidateStreamChunk(chunk) ==
  IF Truthy(chunk) /\ TypeofObject(chunk) THEN Accept
  ELSE [ok |-> FALSE, diag |-> <<>>]

\* ------------------------------------------------------------------------
\* Shared normalisation helpers
\* ------------------------------------------------------------------------
\* Recognized terminal values of NormalizedStopReason.
StopReasons == {"stop", "length", "tool_calls", "content_filter", "error", "unknown"}

\* The shared finish-reason table: a recognized value maps to itself, every
\* other provider-native value falls to "unknown".
NormalizeStopReason(reason) ==
  IF reason.t = "str" /\ reason.v \in StopReasons THEN reason.v ELSE "unknown"

\* The shared error classification, by the provider-native error type.
ClassifyError(e) ==
  IF Get(e, "type") = Str("rate_limit_error") THEN "rate_limit" ELSE "unknown"

NoError == Undefined

\* extractError: the payload's top-level error (an error object, or a bare
\* message string) as a NormalizedError; undefined when there is none.
ExtractError(chunk) ==
  LET e == OptGet(chunk, "error") IN
    IF Truthy(e)
    THEN [t |-> "error", kind |-> ClassifyError(e),
          message |-> IF e.t = "str" THEN e ELSE Get(e, "message")]
    ELSE NoError

\* createModelInfo(id, provider)
CreateModelInfo(id, provider) == [id |-> id, provider |-> provider]

\* extractModelInfo: the chunk's model, or the default when the chunk omits it.
ExtractModelInfo(chunk, provider) ==
  CreateModelInfo(Or(OptGet(chunk, "model"), Str("unknown")), provider)

\* createToolUseContent(id, name, input): the tool-use block descriptor.
CreateToolUseContent(id, name, input) ==
  [type |-> "tool_use", id |-> id, name |-> name, input |-> input]

\* JSON.parse on the argument texts that occur: valid texts decode to their
\* value, any other text is a SyntaxError.  A number or boolean argument is
\* converted to its text and decodes to itself; an object converts to
\* "[object Object]", which is not JSON.
JsonParse(text) ==
  CASE text = Str("{}") -> [ok |-> TRUE, value |-> EmptyObj]
    [] text = Str("{\"a\":1}") -> [ok |-> TRUE, value |-> Obj([a |-> Num(1)])]
    [] text.t \in {"num", "bool"} -> [ok |-> TRUE, value |-> text]
    [] OTHER -> [ok |-> FALSE, value |-> Undefined]

\* A thrown exception (for the async parseStreamChunk: a rejected promise).
Raise(e) == [raised |-> TRUE, exception |-> e]
Walked(events) == [raised |-> FALSE, chunks |-> events]

\* ------------------------------------------------------------------------
\* HuggingFace parseStreamChunk
\* ------------------------------------------------------------------------
\* One iteration of `for (const choice of choices)` in the TGI branch.
HFChoiceEvents(choice) ==
  IF Nullish(choice) THEN Raise("TypeError")
  ELSE
    LET content == OptGet(Get(choice, "delta"), "content")
        finish == Get(choice, "finish_reason")
        deltaEv == IF Truthy(content)
                   THEN <<[type |-> "content_block_delta",
                           delta |-> [text |-> content],
                           index |-> Or(Get(choice, "index"), Num(0))]>>
                   ELSE <<>>
        stopEv == IF Truthy(finish)
                  THEN <<[type |-> "message_stop",
                          delta |-> [stopReason |-> NormalizeStopReason(finish)]]>>
                  ELSE <<>>
    IN Walked(deltaEv \o stopEv)

RECURSIVE HFWalkChoices(_, _, _)
HFWalkChoices(choices, i, acc) ==
  IF i > Len(choices) THEN Walked(acc)
  ELSE LET r == HFChoiceEvents(choices[i]) IN
         IF r.raised THEN r ELSE HFWalkChoices(choices, i + 1, acc \o r.chunks)

\* Variant: the delta carries the token object instead of its text.
HFTokenEventsWholeToken(token) ==
  IF Truthy(OptGet(token, "text"))
  THEN <<[type |-> "content_block_delta", delta |-> [text |-> token]]>>
  ELSE <<>>

HFTokenEvents(token) ==
  IF Truthy(OptGet(token, "text"))
  THEN <<[type |-> "content_block_delta", delta |-> [text |-> Get(token, "text")]]>>
  ELSE <<>>

\* Variant: only generated_text marks the final chunk.
HFParseCompleteByTextOnly(chunk, gid, ts) ==
  IF chunk.t \notin {"obj", "arr"} THEN Raise("TypeError")
  ELSE
    LET error == ExtractError(chunk)
        isTGI == In("choices", chunk) /\ IsArray(Get(chunk, "choices"))
        isTokenBased == In("token", chunk)
        walked == IF isTGI THEN HFWalkChoices(Get(chunk, "choices").v, 1, <<>>)
                  ELSE IF isTokenBased THEN Walked(HFTokenEvents(Get(chunk, "token")))
                  ELSE Walked(<<>>)
        isComplete == Truthy(Get(chunk, "generated_text"))
    IN IF walked.raised THEN walked
       ELSE [raised |-> FALSE,
             id |-> Or(Get(chunk, "id"), Str(gid)),
             provider |-> "huggingface",
             model |-> ExtractModelInfo(chunk, "huggingface"),
             chunks |-> walked.chunks,
             metadata |-> [timestamp |-> ts, complete |-> isComplete],
             error |-> error]

\* Variant: a chunk with both fields is decoded under both formats.
HFParseBothFormats(chunk, gid, ts) ==
  IF chunk.t \notin {"obj", "arr"} THEN Raise("TypeError")
  ELSE
    LET error == ExtractError(chunk)
        isTGI == In("choices", chunk) /\ IsArray(Get(chunk, "choices"))
        isTokenBased == In("token", chunk)
        tokens == IF isTokenBased THEN HFTokenEvents(Get(chunk, "token")) ELSE <<>>
        choices == IF isTGI THEN HFWalkChoices(Get(chunk, "choices").v, 1, <<>>)
                   ELSE Walked(<<>>)
        walked == IF choices.raised THEN choices ELSE Walked(choices.chunks \o tokens)
        isComplete == Truthy(Get(chunk, "generated_text"))
                      \/ Truthy(OptGet(Get(chunk, "details"), "finish_reason"))
    IN IF walked.raised THEN walked
       ELSE [raised |-> FALSE,
             id |-> Or(Get(chunk, "id"), Str(gid)),
             provider |-> "huggingface",
             model |-> ExtractModelInfo(chunk, "huggingface"),
             chunks |-> walked.chunks,
             metadata |-> [timestamp |-> ts, complete |-> isComplete],
             error |-> error]

HFParseStreamChunk(chunk, gid, ts) ==
  IF chunk.t \notin {"obj", "arr"} THEN Raise("TypeError")
  ELSE
    LET error == ExtractError(chunk)
        isTGI == In("choices", chunk) /\ IsArray(Get(chunk, "choices"))
        isTokenBased == In("token", chunk)
        walked == IF isTGI THEN HFWalkChoices(Get(chunk, "choices").v, 1, <<>>)
                  ELSE IF isTokenBased THEN Walked(HFTokenEvents(Get(chunk, "token")))
                  ELSE Walked(<<>>)
        isComplete == Truthy(Get(chunk, "generated_text"))
                      \/ Truthy(OptGet(Get(chunk, "details"), "finish_reason"))
    IN IF walked.raised THEN walked
       ELSE [raised |-> FALSE,
             id |-> Or(Get(chunk, "id"), Str(gid)),
             provider |-> "huggingface",
             model |-> ExtractModelInfo(chunk, "huggingface"),
             chunks |-> walked.chunks,
             metadata |-> [timestamp |-> ts, complete |-> isComplete],
             error |-> error]

\* ------------------------------------------------------------------------
\* Together (OpenAI-compatible) parseStreamChunk
\* ------------------------------------------------------------------------
\* The body of `for (const toolCall of choice.delta.tool_calls)`.
ToolCallEvent(toolCall) ==
  IF Nullish(toolCall) THEN Raise("TypeError")
  ELSE
    LET fn == Get(toolCall, "function")
        parsed == JsonParse(Or(OptGet(fn, "arguments"), Str("{}")))
    IN IF ~parsed.ok THEN Raise("SyntaxError")
       ELSE Walked(<<[type |-> "content_block_start",
                      contentBlock |-> CreateToolUseContent(Get(toolCall, "id"),
                                         OptGet(fn, "name"), parsed.value),
                      index |-> Or(Get(toolCall, "index"), Num(0))]>>)

RECURSIVE WalkToolCalls(_, _, _)
WalkToolCalls(calls, i, acc) ==
  IF i > Len(calls) THEN Walked(acc)
  ELSE LET r == ToolCallEvent(calls[i]) IN
         IF r.raised THEN r ELSE WalkToolCalls(calls, i + 1, acc \o r.chunks)

\* `for (... of x)` over a truthy x: only an array is iterated here; a
\* number, boolean or plain object is not iterable (TypeError).
ToolCallsEvents(toolCalls) ==
  IF ~Truthy(toolCalls) THEN Walked(<<>>)
  ELSE IF ~IsArray(toolCalls) THEN Raise("TypeError")
  ELSE WalkToolCalls(toolCalls.v, 1, <<>>)

\* Variant: the message_stop is pushed before the tool-use blocks.
TogetherChoiceEventsStopFirst(choice) ==
  IF Nullish(choice) THEN Raise("TypeError")
  ELSE
    LET delta == Get(choice, "delta")
        content == OptGet(delta, "content")
        finish == Get(choice, "finish_reason")
        deltaEv == IF Truthy(content)
                   THEN <<[type |-> "content_block_delta",
                           delta |-> [text |-> content],
                           index |-> Or(Get(choice, "index"), Num(0))]>>
                   ELSE <<>>
        tools == ToolCallsEvents(OptGet(delta, "tool_calls"))
        stopEv == IF Truthy(finish)
                  THEN <<[type |-> "message_stop",
                          delta |-> [stopReason |-> NormalizeStopReason(finish)]]>>
                  ELSE <<>>
    IN IF tools.raised THEN tools
       ELSE Walked(deltaEv \o stopEv \o tools.chunks)

\* One iteration of `for (const choice of obj.choices)`.
TogetherChoiceEvents(choice) ==
  IF Nullish(choice) THEN Raise("TypeError")
  ELSE
    LET delta == Get(choice, "delta")
        content == OptGet(delta, "content")
        finish == Get(choice, "finish_reason")
        deltaEv == IF Truthy(content)
                   THEN <<[type |-> "content_block_delta",
                           delta |-> [text |-> content],
                           index |-> Or(Get(choice, "index"), Num(0))]>>
                   ELSE <<>>
        tools == ToolCallsEvents(OptGet(delta, "tool_calls"))
        stopEv == IF Truthy(finish)
                  THEN <<[type |-> "message_stop",
                          delta |-> [stopReason |-> NormalizeStopReason(finish)]]>>
                  ELSE <<>>
    IN IF tools.raised THEN tools
       ELSE Walked(deltaEv \o tools.chunks \o stopEv)

RECURSIVE TogetherWalkChoices(_, _, _)
TogetherWalkChoices(choices, i, acc) ==
  IF i > Len(choices) THEN Walked(acc)
  ELSE LET r == TogetherChoiceEvents(choices[i]) IN
         IF r.raised THEN r
         ELSE TogetherWalkChoices(choices, i + 1, acc \o r.chunks)

\* (Variant: parseStreamChunk as it was before it walked the choices: it
\* answers every chunk with an empty event list.)
TogetherParseCurrent(chunk, gid, ts) ==
  [raised |-> FALSE,
   id |-> Str(gid),
   provider |-> "together",
   model |-> CreateModelInfo(Str("unknown"), "together"),
   chunks |-> <<>>,
   metadata |-> [timestamp |-> ts],
   error |-> NoError]

\* Variant: the parser as it was before error extraction was added: the
\* response carries no error.
TogetherParseWithoutError(chunk, gid, ts) ==
  IF Nullish(chunk) THEN Raise("TypeError")
  ELSE
    LET choices == Get(chunk, "choices")
        walked == IF Truthy(choices) /\ IsArray(choices)
                  THEN TogetherWalkChoices(choices.v, 1, <<>>)
                  ELSE Walked(<<>>)
    IN IF walked.raised THEN walked
       ELSE [raised |-> FALSE,
             id |-> Or(Get(chunk, "id"), Str(gid)),
             provider |-> "together",
             model |-> CreateModelInfo(Or(Get(chunk, "model"), Str("unknown")),
                                       "together"),
             chunks |-> walked.chunks,
             metadata |-> [timestamp |-> ts],
             error |-> NoError]

TogetherParseStreamChunk(chunk, gid, ts) ==
  IF Nullish(chunk) THEN Raise("TypeError")
  ELSE
    LET error == ExtractError(chunk)
        choices == Get(chunk, "choices")
        walked == IF Truthy(choices) /\ IsArray(choices)
                  THEN TogetherWalkChoices(choices.v, 1, <<>>)
                  ELSE Walked(<<>>)
    IN IF walked.raised THEN walked
       ELSE [raised |-> FALSE,
             id |-> Or(Get(chunk, "id"), Str(gid)),
             provider |-> "together",
             model |-> CreateModelInfo(Or(Get(chunk, "model"), Str("unknown")),
                                       "together"),
             chunks |-> walked.chunks,
             metadata |-> [timestamp |-> ts],
             error |-> error]

\* ------------------------------------------------------------------------
\* Raw chunks submitted by the caller
\* ------------------------------------------------------------------------
Absent == [t |-> "absent"]

\* The object holding the fields of r that are present.
RECURSIVE Fields(_, _)
Fields(r, names) ==
  IF names = {} THEN <<>>
  ELSE LET k == CHOOSE f \in names : TRUE
           rest == Fields(r, names \ {k})
       IN IF r[k] = Absent THEN rest ELSE (k :> r[k]) @@ rest
MkObj(r) == Obj(Fields(r, DOMAIN r))

ErrorObject == Obj([message |-> Str("rate limited"), type |-> Str("rate_limit_error")])
TokenHello == Obj([text |-> Str("Hello")])

ToolCallGood ==
  Obj([id |-> Str("call_1"), index |-> Num(1),
       function |-> Obj([name |-> Str("get_weather"), arguments |-> Str("{\"a\":1}")])])
ToolCallNoArgs == Obj([id |-> Str("call_2"), function |-> Obj([name |-> Str("now")])])
ToolCallBadJson ==
  Obj([id |-> Str("call_3"),
       function |-> Obj([name |-> Str("get_weather"), arguments |-> Str("{bad")])])

ChoiceHi == Obj([index |-> Num(0), delta |-> Obj([content |-> Str("Hi")])])
ChoiceStop == Obj([index |-> Num(0), delta |-> EmptyObj, finish_reason |-> Str("stop")])

\* One entry of a choices array: well-formed choices, and the malformed
\* entries a provider or a broken transport can deliver.
ChoiceEntries ==
  { Null,
    Str("x"),
    ChoiceHi,
    ChoiceStop,
    Obj([index |-> Num(1), delta |-> Obj([content |-> Str("Yo")]),
         finish_reason |-> Str("length")]),
    Obj([delta |-> Null, finish_reason |-> Str("eos_token")]),
    Obj([index |-> Num(0), delta |-> Str("x"), finish_reason |-> Null]),
    Obj([index |-> Num(0),
         delta |-> Obj([content |-> Str("Hi"), tool_calls |-> Arr(<<ToolCallGood>>)]),
         finish_reason |-> Str("tool_calls")]),
    Obj([index |-> Num(1),
         delta |-> Obj([content |-> Str(""),
                        tool_calls |-> Arr(<<ToolCallGood, ToolCallNoArgs>>)])]),
    Obj([delta |-> Obj([tool_calls |-> Arr(<<ToolCallBadJson>>)])]),
    Obj([delta |-> Obj([tool_calls |-> Num(5)])]),
    Obj([delta |-> Obj([tool_calls |-> Arr(<<Null>>)])]) }

ChoiceArrays == UNION {[1..n -> ChoiceEntries] : n \in 0..MaxChoices}

\* Values that are no recognized chunk at all.
OtherChunks ==
  { Undefined, Null, Bool(FALSE), Bool(TRUE), Num(0), Num(7), Str(""),
    Str("[DONE]"), Arr(<<>>), Arr(<<Num(1)>>), EmptyObj, Obj([foo |-> Num(1)]) }

\* Chunks with a choices array of any content, alone or next to an error or
\* a token.
ChoiceChunks ==
  { MkObj([error |-> e, token |-> t, choices |-> Arr(cs)]) :
      e \in {Absent, ErrorObject}, t \in {Absent, TokenHello}, cs \in ChoiceArrays }

\* Chunks over every combination of the recognized top-level fields.
FieldChunks ==
  { MkObj([error |-> e, token |-> t, choices |-> c, generated_text |-> g,
           details |-> d, conversation |-> v]) :
      e \in {Absent, Null, Str(""), Str("Model is loading"), ErrorObject},
      t \in {Absent, Null, TokenHello, Obj([text |-> Str("")])},
      c \in {Absent, Str("none"), Arr(<<>>), Arr(<<ChoiceHi>>)},
      g \in {Absent, Null, Str(""), Str("Full answer.")},
      d \in {Absent, Null, Obj([finish_reason |-> Null]),
             Obj([finish_reason |-> Str("eos_token")])},
      v \in {Absent, Obj([generated_responses |-> Arr(<<Str("Hi")>>)])} }

\* Chunks that name their id and model.
NamedChunks ==
  { Obj([id |-> Str("chunk-1"), model |-> Str("m1"), token |-> TokenHello]),
    Obj([id |-> Str("chunk-1"), model |-> Str("m1"),
         choices |-> Arr(<<ChoiceHi, ChoiceStop>>)]) }

Chunks == OtherChunks \cup ChoiceChunks \cup FieldChunks \cup NamedChunks

\* generateId() and getCurrentTimestamp() are not functions of the chunk.
GeneratedIds == {"gen-1", "gen-2"}
Timestamps == 1..MaxTime

\* ------------------------------------------------------------------------
\* State
\* ------------------------------------------------------------------------
VARIABLES
  pc,        \* "idle", "validated" (validateStreamChunk returned), "parsed"
  provider,  \* the parser the caller is using for the chunk in flight
  chunk,     \* the raw chunk in flight
  valid,     \* what validateStreamChunk returned for it
  result,    \* what parseStreamChunk returned (or raised) for it
  errors     \* per parser, the diagnostics recorded by addError

\* A caller that compares the outcomes of two calls for the same chunk.
VARIABLES
  memo       \* the outcome the caller remembered, with the call it came from

\* Calls of the async parseStreamChunk that the caller did not await yet.
VARIABLES
  promises,  \* per call, in call order: the parser, the chunk, the settlement
  jobs,      \* the microtask queue: reactions of settled promises, oldest first
  delivered  \* the results the caller's continuations received, in order

\* One ExecutionContext (src/index.ts) and what its last operation returned.
VARIABLES
  executionId,  \* readonly executionId
  repoSpan,     \* readonly repoSpan, agent_spans included
  given,        \* the arguments the constructor was called with
  lastOp,       \* the operation that ran last
  returned,     \* what it returned
  argument,     \* the result handed to buildResponse, when that ran last
  repeated,     \* finalize ran last, and right before it as well
  started       \* the span_id of every span startAgentSpan returned, in call order

\* One request to the HTTP service (src/index.ts), from its arrival to its
\* response; its ExecutionContext is the one above.
VARIABLES
  req,          \* the request: method, agent id in the path, headers
  stage,        \* "idle", "reading" (await readBody), "handling" (await the
                \* agent), "responded"
  execHeaders,  \* what extractExecutionHeaders returned for it
  invoked,      \* the agent was called for it
  sent          \* the response written for it

parserVars == <<pc, provider, chunk, valid, result, errors>>
serverVars == <<req, stage, execHeaders, invoked, sent>>
asyncVars == <<promises, jobs, delivered>>
execVars ==
  <<executionId, repoSpan, given, lastOp, returned, argument, repeated, started>>
vars == <<parserVars, memo, asyncVars, execVars, serverVars>>

NoResult == [t |-> "none"]
NoMemo == [t |-> "none"]
NoSpan == [t |-> "none"]
NoArguments == [t |-> "none"]
NoRequest == [t |-> "none"]
NoResponse == [t |-> "none"]

Init ==
  /\ pc = "idle"
  /\ provider = "none"
  /\ chunk = Undefined
  /\ valid = FALSE
  /\ result = NoResult
  /\ errors = [huggingface |-> <<>>, together |-> <<>>]
  /\ memo = NoMemo
  /\ promises = <<>>
  /\ jobs = <<>>
  /\ delivered = <<>>
  /\ executionId = Undefined
  /\ repoSpan = NoSpan
  /\ given = NoArguments
  /\ lastOp = "none"
  /\ returned = Undefined
  /\ argument = Undefined
  /\ repeated = FALSE
  /\ started = <<>>
  /\ req = NoRequest
  /\ stage = "idle"
  /\ execHeaders = Undefined
  /\ invoked = FALSE
  /\ sent = NoResponse

\* The caller hands chunk c to validateStreamChunk of parser p.
Validate(p, c, r) ==
  /\ Len(errors[p]) + Len(r.diag) <= MaxErrors
  /\ pc' = "validated"
  /\ provider' = p
  /\ chunk' = c
  /\ valid' = r.ok
  /\ errors' = [errors EXCEPT ![p] = @ \o r.diag]
  /\ result' = NoResult

HFValidate ==
  /\ pc = "idle"
  /\ \E c \in Chunks : Validate("huggingface", c, HFValidateStreamChunk(c))
  /\ UNCHANGED <<memo, asyncVars, execVars, serverVars>>

TogetherValidate ==
  /\ pc = "idle"
  /\ \E c \in Chunks : Validate("together", c, TogetherValidateStreamChunk(c))
  /\ UNCHANGED <<memo, asyncVars, execVars, serverVars>>

\* The caller parses a chunk only after it validated.
\* (Variant: the response reports the diagnostic an earlier rejected
\* validation recorded on the parser.)
HFParseReportingDiagnostics ==
  /\ pc = "validated" /\ provider = "huggingface" /\ valid
  /\ \E gid \in GeneratedIds, ts \in Timestamps :
       LET r == HFParseStreamChunk(chunk, gid, ts)
       IN result' = IF ~r.raised /\ errors.huggingface # <<>>
                    THEN [r EXCEPT !.error =
                            [t |-> "error", kind |-> "unknown",
                             message |-> errors.huggingface[Len(errors.huggingface)]]]
                    ELSE r
  /\ pc' = "parsed"
  /\ UNCHANGED <<provider, chunk, valid, errors>>
  /\ UNCHANGED <<memo, asyncVars, execVars, serverVars>>

HFParse ==
  /\ pc = "validated" /\ provider = "huggingface" /\ valid
  /\ \E gid \in GeneratedIds, ts \in Timestamps :
       result' = HFParseStreamChunk(chunk, gid, ts)
  /\ pc' = "parsed"
  /\ UNCHANGED <<provider, chunk, valid, errors>>
  /\ UNCHANGED <<memo, asyncVars, execVars, serverVars>>

TogetherParse ==
  /\ pc = "validated" /\ provider = "together" /\ valid
  /\ \E gid \in GeneratedIds, ts \in Timestamps :
       result' = TogetherParseStreamChunk(chunk, gid, ts)
  /\ pc' = "parsed"
  /\ UNCHANGED <<provider, chunk, valid, errors>>
  /\ UNCHANGED <<memo, asyncVars, execVars, serverVars>>

\* The call returns: the caller takes the outcome and the parser keeps no
\* reference to the chunk.
Return ==
  /\ pc \in {"validated", "parsed"}
  /\ pc' = "idle"
  /\ provider' = "none"
  /\ chunk' = Undefined
  /\ valid' = FALSE
  /\ result' = NoResult
  /\ UNCHANGED errors
  /\ UNCHANGED <<memo, asyncVars, execVars, serverVars>>

Next == HFValidate \/ TogetherValidate \/ HFParse \/ TogetherParse \/ Return

Spec == Init /\ [][Next]_vars

TypeOK ==
  /\ pc \in {"idle", "validated", "parsed"}
  /\ provider \in {"none", "huggingface", "together"}
  /\ valid \in BOOLEAN
  /\ Len(errors.huggingface) <= MaxErrors
  /\ (pc = "parsed" => valid /\ result # NoResult)

\* ------------------------------------------------------------------------
\* Properties
\* ------------------------------------------------------------------------
Validated(p) == pc = "validated" /\ provider = p
Parsed(p) == pc = "parsed" /\ provider = p

\* The chunk's choices field is an array (the TGI / OpenAI-compatible shape).
HasChoicesArray(c) == In("choices", c) /\ IsArray(Get(c, "choices"))

\* The chunk carries a provider-level error: an error object or message.
CarriesError(c) == c.t = "obj" /\ Truthy(Get(c, "error"))

\* C1: whenever validateStreamChunk returned true for a chunk, parseStreamChunk
\* returns a response for it and does not raise (both parsers, malformed
\* choices entries, delta, token and tool_calls included).
C1_Totality == pc = "parsed" => ~result.raised

\* C2: the HuggingFace validateStreamChunk returns false (recording a
\* diagnostic, not raising) for null, for every non-object, for {} and for
\* every object without an error, token, array choices, generated_text or
\* conversation field, a non-array choices field alone included.
NoRecognizedField(c) ==
  /\ ~In("error", c)
  /\ ~In("token", c)
  /\ ~(In("choices", c) /\ Get(c, "choices").t = "arr")
  /\ ~In("generated_text", c)
  /\ ~In("conversation", c)

C2_Rejection ==
  (Validated("huggingface") /\ (chunk.t # "obj" \/ NoRecognizedField(chunk)))
    => (~valid /\ errors.huggingface # <<>>)

C2_Witness ==
  /\ Validated("huggingface")
  /\ chunk = Obj([choices |-> Str("none")])
  /\ ~valid

\* C3 (as claimed): the HuggingFace validateStreamChunk returns true for every
\* object chunk that has an error field, a token field, an array choices
\* field, or a generated_text or conversation field, whatever their values.
C3_AcceptsAnyErrorField ==
  (Validated("huggingface") /\ chunk.t = "obj" /\ ~NoRecognizedField(chunk))
    => valid

\* C3 (amended): the same, for an error field whose value is truthy; the
\* token, array choices, generated_text and conversation fields are accepted
\* whatever their values.
C3_Acceptance ==
  (/\ Validated("huggingface")
   /\ chunk.t = "obj"
   /\ \/ Truthy(Get(chunk, "error"))
      \/ In("token", chunk)
      \/ (In("choices", chunk) /\ Get(chunk, "choices").t = "arr")
      \/ In("generated_text", chunk)
      \/ In("conversation", chunk))
    => valid

C3_Witness ==
  /\ Validated("huggingface")
  /\ chunk = Obj([token |-> Null])
  /\ valid

\* JSON texts that decode to a value.
ValidJsonTexts == {"{}", "{\"a\":1}"}

\* A tool call, a choice and a chunk in the shape the providers document.
ToolCallArgs(tc) == OptGet(Get(tc, "function"), "arguments")
ShapedToolCall(tc) == tc.t = "obj" /\ ToolCallArgs(tc).t \in {"undefined", "str"}
ValidToolCall(tc) ==
  /\ ShapedToolCall(tc)
  /\ (ToolCallArgs(tc).t = "str" => ToolCallArgs(tc).v \in ValidJsonTexts)
ChoiceToolCalls(ch) == OptGet(Get(ch, "delta"), "tool_calls")
ShapedChoice(ch) ==
  /\ ch.t = "obj"
  /\ Get(ch, "delta").t \in {"undefined", "obj"}
  /\ ChoiceToolCalls(ch).t \in {"undefined", "arr"}
  /\ (ChoiceToolCalls(ch).t = "arr" =>
        \A j \in DOMAIN ChoiceToolCalls(ch).v : ShapedToolCall(ChoiceToolCalls(ch).v[j]))
ValidChoice(ch) ==
  /\ ShapedChoice(ch)
  /\ (ChoiceToolCalls(ch).t = "arr" =>
        \A j \in DOMAIN ChoiceToolCalls(ch).v : ValidToolCall(ChoiceToolCalls(ch).v[j]))
NonEmptyText(x) == x.t = "str" /\ x.v # ""
ValidContentFields(c) ==
  /\ c.t = "obj"
  /\ \/ NonEmptyText(OptGet(Get(c, "token"), "text"))
     \/ (HasChoicesArray(c) /\ Get(c, "choices").v # <<>>)
     \/ NonEmptyText(Get(c, "generated_text"))
  /\ (In("choices", c) =>
        /\ HasChoicesArray(c)
        /\ \A i \in DOMAIN Get(c, "choices").v : ValidChoice(Get(c, "choices").v[i]))

C5_ErrorMeansNoEvents ==
  (pc = "parsed" /\ CarriesError(chunk) /\ ~result.raised)
    => (result.chunks = <<>> /\ result.error # NoError)

\* The response holds exactly one content_block_delta, with the token's text,
\* and no error.
TokenText(c) == OptGet(Get(c, "token"), "text")
OneTokenDelta ==
  /\ ~result.raised
  /\ Len(result.chunks) = 1
  /\ result.chunks[1].type = "content_block_delta"
  /\ result.chunks[1].delta.text = TokenText(chunk)
  /\ result.error = NoError

\* C6 (as claimed): for every chunk that carries a token field with text and
\* no error, the HuggingFace parseStreamChunk emits exactly one
\* content_block_delta with that text, no other event and no error.
C6_TokenAlwaysOneDelta ==
  (/\ Parsed("huggingface")
   /\ In("token", chunk)
   /\ TokenText(chunk).t = "str"
   /\ ~CarriesError(chunk))
    => OneTokenDelta

\* C6 (amended): the same, for a token whose text is a non-empty string in a
\* chunk that has no array choices field.
C6_TokenDelta ==
  (/\ Parsed("huggingface")
   /\ In("token", chunk)
   /\ NonEmptyText(TokenText(chunk))
   /\ ~HasChoicesArray(chunk)
   /\ ~CarriesError(chunk))
    => OneTokenDelta

C6_Witness ==
  /\ Parsed("huggingface")
  /\ chunk = Obj([token |-> TokenHello])
  /\ ~result.raised
  /\ result.chunks = <<[type |-> "content_block_delta", delta |-> [text |-> Str("Hello")]]>>

\* What one choice contributes, read off the chunk: its truthy delta.content,
\* its tool calls (the OpenAI-compatible parser only) and its truthy
\* finish_reason.
ChoiceContent(ch) == OptGet(Get(ch, "delta"), "content")
ChoiceFinish(ch) == Get(ch, "finish_reason")
ChoiceTools(p, ch) ==
  IF p = "together" /\ ChoiceToolCalls(ch).t = "arr" THEN ChoiceToolCalls(ch).v ELSE <<>>
Contribution(p, ch) ==
  (IF Truthy(ChoiceContent(ch)) THEN 1 ELSE 0)
    + Len(ChoiceTools(p, ch))
    + (IF Truthy(ChoiceFinish(ch)) THEN 1 ELSE 0)

\* Number of events owed to the first i choices.
RECURSIVE Offset(_, _, _)
Offset(p, cs, i) == IF i = 0 THEN 0 ELSE Offset(p, cs, i - 1) + Contribution(p, cs[i])

Rank(type) ==
  CASE type = "content_block_delta" -> 1
    [] type = "content_block_start" -> 2
    [] type = "message_stop" -> 3
    [] OTHER -> 0

\* C7: for a chunk with a choices array the events follow the order of the
\* choices; within one choice the content_block_delta comes first, then the
\* tool-use content_block_start events in tool-call order, then the
\* message_stop; a choice yields at most one delta and at most one stop.
C7_ChoiceOrder ==
  (pc = "parsed" /\ HasChoicesArray(chunk) /\ ~result.raised) =>
    LET cs == Get(chunk, "choices").v
        ev == result.chunks
    IN /\ Len(ev) = Offset(provider, cs, Len(cs))
       /\ \A i \in 1..Len(cs) :
            LET lo == Offset(provider, cs, i - 1)
                hi == Offset(provider, cs, i)
                seg == (lo + 1)..hi
                tools == ChoiceTools(provider, cs[i])
                first == IF Truthy(ChoiceContent(cs[i])) THEN 1 ELSE 0
            IN /\ \A a, b \in seg :
                    a < b => \/ Rank(ev[a].type) < Rank(ev[b].type)
                             \/ /\ ev[a].type = "content_block_start"
                                /\ ev[b].type = "content_block_start"
               /\ Cardinality({a \in seg : ev[a].type = "content_block_delta"}) <= 1
               /\ Cardinality({a \in seg : ev[a].type = "message_stop"}) <= 1
               /\ (Truthy(ChoiceContent(cs[i])) =>
                     /\ ev[lo + 1].type = "content_block_delta"
                     /\ ev[lo + 1].delta.text = ChoiceContent(cs[i]))
               /\ \A k \in 1..Len(tools) :
                     /\ ev[lo + first + k].type = "content_block_start"
                     /\ ev[lo + first + k].contentBlock.id = Get(tools[k], "id")
               /\ (Truthy(ChoiceFinish(cs[i])) => ev[hi].type = "message_stop")

C7_Witness ==
  /\ Parsed("together")
  /\ HasChoicesArray(chunk)
  /\ ~result.raised
  /\ Len(Get(chunk, "choices").v) = 2
  /\ Len(result.chunks) >= 4
  /\ \A ty \in {"content_block_delta", "content_block_start", "message_stop"} :
       \E a \in DOMAIN result.chunks : result.chunks[a].type = ty

\* C8 (as claimed): for every validated HuggingFace chunk, metadata.complete
\* is true iff the chunk has a generated_text field or a details.finish_reason
\* field.
C8_CompleteIffFieldPresent ==
  (Parsed("huggingface") /\ ~result.raised) =>
    (result.metadata.complete <=>
       (In("generated_text", chunk) \/ In("finish_reason", Get(chunk, "details"))))

\* C8 (amended): metadata.complete is true iff generated_text is truthy or
\* details.finish_reason is truthy; every other chunk, the token-based and the
\* TGI format included, yields complete = false.
C8_CompleteFlag ==
  (Parsed("huggingface") /\ ~result.raised) =>
    (result.metadata.complete <=>
       \/ Truthy(Get(chunk, "generated_text"))
       \/ (In("details", chunk) /\ Truthy(OptGet(chunk.v.details, "finish_reason"))))

C8_Witness ==
  /\ Parsed("huggingface")
  /\ ~result.raised
  /\ ~In("generated_text", chunk)
  /\ Get(chunk, "details") = Obj([finish_reason |-> Str("eos_token")])
  /\ result.metadata.complete

\* Some tool call of the chunk has an argument text that is not valid JSON,
\* in a chunk otherwise of the documented shape.
HasMalformedToolArgs(c) ==
  /\ HasChoicesArray(c)
  /\ \A i \in DOMAIN Get(c, "choices").v : ShapedChoice(Get(c, "choices").v[i])
  /\ \E i \in DOMAIN Get(c, "choices").v :
       LET tcs == ChoiceToolCalls(Get(c, "choices").v[i]) IN
         /\ tcs.t = "arr"
         /\ \E j \in DOMAIN tcs.v :
              /\ ToolCallArgs(tcs.v[j]).t = "str"
              /\ ToolCallArgs(tcs.v[j]).v \notin ValidJsonTexts

\* C9: for every chunk with a tool call whose function.arguments is not valid
\* JSON, the OpenAI-compatible parseStreamChunk does not raise and emits a
\* content_block_start whose tool-use descriptor has {} as its arguments.
C9_MalformedArgsDegrade ==
  (Parsed("together") /\ HasMalformedToolArgs(chunk)) =>
    /\ ~result.raised
    /\ \E a \in DOMAIN result.chunks :
         /\ result.chunks[a].type = "content_block_start"
         /\ result.chunks[a].contentBlock.input = EmptyObj

\* C10: for every chunk with an array choices field (here: of well-formed
\* choices), the HuggingFace parseStreamChunk emits the same sequence of events
\* as the OpenAI-compatible parseStreamChunk (same types, texts, indexes,
\* tool-use descriptors and stop reasons).
SameEvents(a, b) == a.raised = b.raised /\ (~a.raised => a.chunks = b.chunks)

C10_SameChoiceWalk ==
  (/\ Parsed("huggingface")
   /\ HasChoicesArray(chunk)
   /\ \A i \in DOMAIN Get(chunk, "choices").v : ValidChoice(Get(chunk, "choices").v[i])) =>
    \A gid \in GeneratedIds, ts \in Timestamps :
      SameEvents(result, TogetherParseStreamChunk(chunk, gid, ts))

\* ------------------------------------------------------------------------
\* A caller that parses the same chunk more than once
\* ------------------------------------------------------------------------
\* The chunks of the documented scenarios, and values both validators or
\* the HuggingFace validator reject.
ProbeChunks ==
  NamedChunks \cup
  { Null, Str("[DONE]"), EmptyObj,
    Obj([token |-> TokenHello]),
    Obj([choices |-> Arr(<<ChoiceHi>>)]),
    Obj([error |-> ErrorObject]),
    Obj([error |-> Str("Model is loading"), token |-> TokenHello]),
    Obj([generated_text |-> Str("Full answer."),
         details |-> Obj([finish_reason |-> Str("eos_token")])]) }

\* What a caller observes of a parse call besides the generated id and the
\* timestamp: the events, the completion flag and the error, or the exception.
Outcome(r) ==
  IF r.raised THEN [raised |-> TRUE, exception |-> r.exception]
  ELSE [raised |-> FALSE,
        chunks |-> r.chunks,
        complete |-> IF "complete" \in DOMAIN r.metadata
                     THEN Bool(r.metadata.complete) ELSE Undefined,
        error |-> r.error]

ProbeHFValidate ==
  /\ pc = "idle"
  /\ \E c \in ProbeChunks : Validate("huggingface", c, HFValidateStreamChunk(c))
  /\ UNCHANGED <<memo, asyncVars, execVars, serverVars>>

ProbeTogetherValidate ==
  /\ pc = "idle"
  /\ \E c \in ProbeChunks : Validate("together", c, TogetherValidateStreamChunk(c))
  /\ UNCHANGED <<memo, asyncVars, execVars, serverVars>>

\* The caller keeps the outcome of the call that just returned, to compare
\* it with later calls for the same chunk.
Remember ==
  /\ pc = "parsed"
  /\ memo = NoMemo
  /\ memo' = [provider |-> provider, chunk |-> chunk,
              outcome |-> Outcome(result), errors |-> errors]
  /\ UNCHANGED <<parserVars, asyncVars, execVars, serverVars>>

ProbeNext ==
  ProbeHFValidate \/ ProbeTogetherValidate \/ HFParse \/ TogetherParse
    \/ Return \/ Remember

ProbeSpec == Init /\ [][ProbeNext]_vars

\* The call in flight parses the chunk of the remembered call, with the
\* same parser.
SameChunkAgain ==
  /\ pc = "parsed"
  /\ memo # NoMemo
  /\ memo.provider = provider
  /\ memo.chunk = chunk

Providers == {"huggingface", "together"}

\* Chunks both validators accept.
AsyncChunks == NamedChunks

ParseStreamChunk(p, c, gid, ts) ==
  IF p = "huggingface" THEN HFParseStreamChunk(c, gid, ts)
  ELSE TogetherParseStreamChunk(c, gid, ts)

\* (Variant: the parser holds every chunk back until the next one arrives,
\* and answers a call with the events of the chunk before.)
AsyncCallBuffered ==
  /\ Len(promises) < MaxCalls
  /\ \E p \in Providers, c \in AsyncChunks, gid \in GeneratedIds, ts \in Timestamps :
       LET held == IF promises = <<>> THEN c ELSE promises[Len(promises)].chunk
       IN promises' = Append(promises,
                             [provider |-> p, chunk |-> c,
                              settled |-> ParseStreamChunk(p, held, gid, ts)])
  /\ jobs' = Append(jobs, Len(promises) + 1)
  /\ UNCHANGED <<parserVars, memo, delivered, execVars, serverVars>>

\* The caller calls parseStreamChunk(c) and goes on without awaiting. The
\* body has no await: it runs to its return inside the call, the promise
\* settles with what it returned (or raised), and the reaction the caller
\* registered on the promise is queued as a microtask.
AsyncCall ==
  /\ Len(promises) < MaxCalls
  /\ \E p \in Providers, c \in AsyncChunks, gid \in GeneratedIds, ts \in Timestamps :
       promises' = Append(promises,
                          [provider |-> p, chunk |-> c,
                           settled |-> ParseStreamChunk(p, c, gid, ts)])
  /\ jobs' = Append(jobs, Len(promises) + 1)
  /\ UNCHANGED <<parserVars, memo, delivered, execVars, serverVars>>

\* The event loop runs the oldest microtask: the caller's continuation
\* receives the result of that call.
RunJob ==
  /\ jobs # <<>>
  /\ delivered' = Append(delivered,
                         [call |-> Head(jobs), result |-> promises[Head(jobs)].settled])
  /\ jobs' = Tail(jobs)
  /\ UNCHANGED <<parserVars, memo, promises, execVars, serverVars>>

AsyncNext == AsyncCall \/ RunJob

AsyncSpec == Init /\ [][AsyncNext]_vars

Capabilities ==
  [huggingface |-> [streaming |-> TRUE, functionCalling |-> FALSE,
                    toolUse |-> FALSE, vision |-> TRUE],
   together |-> [streaming |-> TRUE]]

ValidateStreamChunk(p, c) ==
  IF p = "huggingface" THEN HFValidateStreamChunk(c)
  ELSE TogetherValidateStreamChunk(c)

\* The chunk shapes the providers document: a token chunk, a final chunk
\* with the generated text, and a choices chunk with a content delta.
DocumentedChunks ==
  { Obj([token |-> TokenHello]),
    Obj([token |-> TokenHello, generated_text |-> Str("Full answer."),
         details |-> Obj([finish_reason |-> Str("eos_token")])]),
    Obj([choices |-> Arr(<<ChoiceHi>>)]) }

\* Parser p accepts chunk c and decodes it into at least one event and no
\* error.
Streams(p, c) ==
  /\ ValidateStreamChunk(p, c).ok
  /\ \A gid \in GeneratedIds, ts \in Timestamps :
       LET r == ParseStreamChunk(p, c, gid, ts)
       IN ~r.raised /\ r.error = NoError /\ Len(r.chunks) >= 1

ExecutionIds == {"exec-1"}
ParentSpanIds == {"core-span-id"}
AgentNames == {"agent-1", "agent-2"}
FailureReasons == {"Broke"}
SpanMetadata == {Undefined}
Results == {Obj([partial |-> Bool(TRUE)])}

\* new Date().toISOString(): no operation reads a time back.
Instants == {"2025-01-01T00:00:00.000Z"}

\* randomUUID(): the n-th identifier generated for this context.
Uuids == <<"uuid-1", "uuid-2", "uuid-3", "uuid-4", "uuid-5", "uuid-6">>
RandomUUID(n) == Uuids[n]

\* References made by createArtifactRef, handed to attachArtifact.
ArtifactRefs ==
  { [artifact_id |-> "artifact-1", label |-> "output",
     content_type |-> "application/json"],
    [artifact_id |-> "artifact-2", label |-> "log",
     content_type |-> "text/plain"] }

\* (Variant: the constructor stores its two arguments the other way round.)
NewRepoSpanSwapped(e, parentSpanId, t) ==
  [type |-> "repo",
   repo_name |-> "llm-forge",
   span_id |-> RandomUUID(1),
   parent_span_id |-> e,
   execution_id |-> parentSpanId,
   start_time |-> t,
   end_time |-> Undefined,
   status |-> "RUNNING",
   failure_reason |-> Undefined,
   agent_spans |-> <<>>]

\* The repo span the constructor creates.
NewRepoSpan(e, parentSpanId, t) ==
  [type |-> "repo",
   repo_name |-> "llm-forge",
   span_id |-> RandomUUID(1),
   parent_span_id |-> parentSpanId,
   execution_id |-> e,
   start_time |-> t,
   end_time |-> Undefined,
   status |-> "RUNNING",
   failure_reason |-> Undefined,
   agent_spans |-> <<>>]

\* (Variant: the agent span is nested under the caller's span, next to the
\* repo span.)
NewAgentSpanUnderCore(repo, agentName, metadata, t) ==
  [type |-> "agent",
   agent_name |-> agentName,
   repo_name |-> "llm-forge",
   span_id |-> RandomUUID(Len(repo.agent_spans) + 2),
   parent_span_id |-> repo.parent_span_id,
   start_time |-> t,
   end_time |-> Undefined,
   status |-> "RUNNING",
   failure_reason |-> Undefined,
   artifacts |-> <<>>,
   metadata |-> metadata]

\* The agent span startAgentSpan creates.
NewAgentSpan(repo, agentName, metadata, t) ==
  [type |-> "agent",
   agent_name |-> agentName,
   repo_name |-> "llm-forge",
   span_id |-> RandomUUID(Len(repo.agent_spans) + 2),
   parent_span_id |-> repo.span_id,
   start_time |-> t,
   end_time |-> Undefined,
   status |-> "RUNNING",
   failure_reason |-> Undefined,
   artifacts |-> <<>>,
   metadata |-> metadata]

\* (Variant: unshift in place of push.)
Unshift(spans, span) == <<span>> \o spans

\* Array.prototype.push
Push(spans, span) == Append(spans, span)

\* Array.prototype.filter, for the FAILED spans.
RECURSIVE FailedSpans(_)
FailedSpans(spans) ==
  IF spans = <<>> THEN <<>>
  ELSE IF Head(spans).status = "FAILED"
       THEN <<Head(spans)>> \o FailedSpans(Tail(spans))
       ELSE FailedSpans(Tail(spans))

\* `${s.agent_name}: ${s.failure_reason}`
ReasonOf(span) ==
  span.agent_name \o ": " \o
    (IF span.failure_reason = Undefined THEN "undefined" ELSE span.failure_reason.v)

\* Array.prototype.join
RECURSIVE Join(_, _)
Join(strings, separator) ==
  IF strings = <<>> THEN ""
  ELSE IF Len(strings) = 1 THEN strings[1]
       ELSE strings[1] \o separator \o Join(Tail(strings), separator)

\* (Variant: the reasons of all spans that ended, completed ones included.)
FailureReasonOfEnded(spans) ==
  LET ended == SelectSeq(spans, LAMBDA sp : sp.end_time # Undefined)
  IN Str(Join([i \in 1..Len(ended) |-> ReasonOf(ended[i])], "; "))

FailureReason(spans) ==
  LET failed == FailedSpans(spans)
  IN Str(Join([i \in 1..Len(failed) |-> ReasonOf(failed[i])], "; "))

AnyFailed(spans) == \E i \in 1..Len(spans) : spans[i].status = "FAILED"

\* (Variant: finalize without the branch for an empty agent_spans.)
FinalizedWithoutEmptyCase(repo, t) ==
  LET anyFailed == AnyFailed(repo.agent_spans)
      ended == [repo EXCEPT !.end_time = Str(t),
                            !.status = IF anyFailed THEN "FAILED" ELSE "COMPLETED"]
  IN IF anyFailed
     THEN [ended EXCEPT !.failure_reason = FailureReason(repo.agent_spans)]
     ELSE ended

\* (Variant: every finalize adds its reasons to the failure_reason that is
\* already there.)
FinalizedAccumulating(repo, t) ==
  LET once == IF Len(repo.agent_spans) = 0
              THEN [repo EXCEPT !.end_time = Str(t),
                                !.status = "FAILED",
                                !.failure_reason = Str("No agent spans produced")]
              ELSE LET anyFailed == AnyFailed(repo.agent_spans)
                       ended == [repo EXCEPT !.end_time = Str(t),
                                             !.status = IF anyFailed THEN "FAILED"
                                                        ELSE "COMPLETED"]
                   IN IF anyFailed
                      THEN [ended EXCEPT !.failure_reason = FailureReason(repo.agent_spans)]
                      ELSE ended
  IN IF repo.failure_reason # Undefined /\ once.status = "FAILED"
     THEN [once EXCEPT !.failure_reason =
             Str(repo.failure_reason.v \o "; " \o once.failure_reason.v)]
     ELSE once

\* The repo span as finalize leaves it.
Finalized(repo, t) ==
  IF Len(repo.agent_spans) = 0
  THEN [repo EXCEPT !.end_time = Str(t),
                    !.status = "FAILED",
                    !.failure_reason = Str("No agent spans produced")]
  ELSE LET anyFailed == AnyFailed(repo.agent_spans)
           ended == [repo EXCEPT !.end_time = Str(t),
                                 !.status = IF anyFailed THEN "FAILED" ELSE "COMPLETED"]
       IN IF anyFailed
          THEN [ended EXCEPT !.failure_reason = FailureReason(repo.agent_spans)]
          ELSE ended

\* (Variant: the envelope of a failed execution leaves out the spans that
\* failed.)
ResponseWithoutFailedSpans(r, execution) ==
  [result |-> r,
   execution |-> [execution EXCEPT !.agent_spans =
                    SelectSeq(@, LAMBDA sp : sp.status # "FAILED")]]

\* { result, execution }
Response(r, execution) == [result |-> r, execution |-> execution]

\* The span as completeAgentSpan leaves it.
CompletedSpan(span, t) ==
  [span EXCEPT !.end_time = Str(t), !.status = "COMPLETED"]

\* The span as failAgentSpan leaves it.
FailedSpan(span, reason, t) ==
  [span EXCEPT !.end_time = Str(t), !.status = "FAILED",
               !.failure_reason = Str(reason)]

\* The span as attachArtifact leaves it.
AttachedSpan(span, artifact) ==
  [span EXCEPT !.artifacts = Push(@, artifact)]

Constructed == repoSpan # NoSpan

RECURSIVE CountArtifacts(_)
CountArtifacts(spans) ==
  IF spans = <<>> THEN 0
  ELSE Len(Head(spans).artifacts) + CountArtifacts(Tail(spans))

\* new ExecutionContext(executionId, parentSpanId)
Construct ==
  /\ ~Constructed
  /\ \E e \in ExecutionIds, parentSpanId \in ParentSpanIds, t \in Instants :
       /\ executionId' = e
       /\ repoSpan' = NewRepoSpan(e, parentSpanId, t)
       /\ given' = [executionId |-> e, parentSpanId |-> parentSpanId]
  /\ lastOp' = "constructor"
  /\ started' = <<>>
  /\ returned' = Undefined
  /\ argument' = Undefined
  /\ repeated' = FALSE
  /\ UNCHANGED <<parserVars, memo, asyncVars, serverVars>>

StartAgentSpan ==
  /\ Constructed
  /\ Len(repoSpan.agent_spans) < MaxSpans
  /\ \E agentName \in AgentNames, metadata \in SpanMetadata, t \in Instants :
       LET span == NewAgentSpan(repoSpan, agentName, metadata, t)
       IN /\ repoSpan' = [repoSpan EXCEPT !.agent_spans = Push(@, span)]
          /\ returned' = span
          /\ started' = Append(started, span.span_id)
  /\ lastOp' = "startAgentSpan"
  /\ argument' = Undefined
  /\ repeated' = FALSE
  /\ UNCHANGED <<executionId, given, parserVars, memo, asyncVars, serverVars>>

\* completeAgentSpan(span), for a span of this context.
CompleteAgentSpan ==
  /\ Constructed
  /\ \E i \in 1..Len(repoSpan.agent_spans), t \in Instants :
       repoSpan' = [repoSpan EXCEPT !.agent_spans[i] = CompletedSpan(@, t)]
  /\ lastOp' = "completeAgentSpan"
  /\ returned' = Undefined
  /\ argument' = Undefined
  /\ repeated' = FALSE
  /\ UNCHANGED <<executionId, given, started, parserVars, memo, asyncVars, serverVars>>

\* failAgentSpan(span, reason), for a span of this context.
FailAgentSpan ==
  /\ Constructed
  /\ \E i \in 1..Len(repoSpan.agent_spans), reason \in FailureReasons, t \in Instants :
       repoSpan' = [repoSpan EXCEPT !.agent_spans[i] = FailedSpan(@, reason, t)]
  /\ lastOp' = "failAgentSpan"
  /\ returned' = Undefined
  /\ argument' = Undefined
  /\ repeated' = FALSE
  /\ UNCHANGED <<executionId, given, started, parserVars, memo, asyncVars, serverVars>>

\* (Variant: attaching an artifact also stamps the span's end_time.)
AttachArtifactAndEnd ==
  /\ Constructed
  /\ CountArtifacts(repoSpan.agent_spans) < MaxArtifacts
  /\ \E i \in 1..Len(repoSpan.agent_spans), artifact \in ArtifactRefs, t \in Instants :
       repoSpan' = [repoSpan EXCEPT !.agent_spans[i].artifacts = Push(@, artifact),
                                    !.agent_spans[i].end_time = Str(t)]
  /\ lastOp' = "attachArtifact"
  /\ returned' = Undefined
  /\ argument' = Undefined
  /\ repeated' = FALSE
  /\ UNCHANGED <<executionId, given, started, parserVars, memo, asyncVars, serverVars>>

\* attachArtifact(span, artifact), for a span of this context.
AttachArtifact ==
  /\ Constructed
  /\ CountArtifacts(repoSpan.agent_spans) < MaxArtifacts
  /\ \E i \in 1..Len(repoSpan.agent_spans), artifact \in ArtifactRefs :
       repoSpan' = [repoSpan EXCEPT !.agent_spans[i] = AttachedSpan(@, artifact)]
  /\ lastOp' = "attachArtifact"
  /\ returned' = Undefined
  /\ argument' = Undefined
  /\ repeated' = FALSE
  /\ UNCHANGED <<executionId, given, started, parserVars, memo, asyncVars, serverVars>>

\* finalize() returns the repo span itself.
Finalize ==
  /\ Constructed
  /\ \E t \in Instants : repoSpan' = Finalized(repoSpan, t)
  /\ lastOp' = "finalize"
  /\ returned' = repoSpan'
  /\ argument' = Undefined
  /\ repeated' = (lastOp \in {"finalize", "buildResponse"})
  /\ UNCHANGED <<executionId, given, started, parserVars, memo, asyncVars, serverVars>>

BuildResponse ==
  /\ Constructed
  /\ \E r \in Results, t \in Instants :
       /\ repoSpan' = Finalized(repoSpan, t)
       /\ returned' = Response(r, repoSpan')
       /\ argument' = r
  /\ lastOp' = "buildResponse"
  /\ repeated' = (lastOp \in {"finalize", "buildResponse"})
  /\ UNCHANGED <<executionId, given, started, parserVars, memo, asyncVars, serverVars>>

ExecNext ==
  Construct \/ StartAgentSpan \/ CompleteAgentSpan \/ FailAgentSpan
    \/ AttachArtifact \/ Finalize \/ BuildResponse

ExecSpec == Init /\ [][ExecNext]_vars

\* C14: right after construction the context holds a repo span with status
\* RUNNING, no agent spans, no end_time and no failure_reason, whose
\* execution_id and parent_span_id are the constructor's arguments.
C14_NewContext ==
  lastOp = "constructor" =>
    /\ repoSpan.type = "repo"
    /\ repoSpan.status = "RUNNING"
    /\ repoSpan.agent_spans = <<>>
    /\ repoSpan.end_time = Undefined
    /\ repoSpan.failure_reason = Undefined
    /\ repoSpan.execution_id = given.executionId
    /\ repoSpan.parent_span_id = given.parentSpanId
    /\ executionId = given.executionId

C14_Witness ==
  /\ lastOp = "constructor"
  /\ given = [executionId |-> "exec-1", parentSpanId |-> "core-span-id"]
  /\ repoSpan.status = "RUNNING"

\* C15: span hierarchy: in every state reached by the operations of the
\* context, the repo span's parent is the parent span id given to the
\* constructor and every agent span's parent is the repo span.
C15_SpanHierarchy ==
  Constructed =>
    /\ repoSpan.parent_span_id = given.parentSpanId
    /\ \A i \in 1..Len(repoSpan.agent_spans) :
         repoSpan.agent_spans[i].parent_span_id = repoSpan.span_id

\* Two agent spans, ended and with an artifact, in the envelope that
\* buildResponse returned.
C15_Witness ==
  /\ lastOp = "buildResponse"
  /\ Len(returned.execution.agent_spans) = 2
  /\ returned.execution.agent_spans[1].status = "FAILED"
  /\ returned.execution.agent_spans[2].artifacts # <<>>
  /\ given.parentSpanId = "core-span-id"

SpanIds(spans) == [i \in 1..Len(spans) |-> spans[i].span_id]

IsPrefix(a, b) == Len(a) <= Len(b) /\ \A i \in 1..Len(a) : a[i] = b[i]

\* C16: agent spans are append-only: every operation leaves the spans that
\* were in agent_spans in their places, startAgentSpan adds exactly one
\* span, RUNNING and without artifacts, at the end, and no other operation
\* changes the length of the list.
C16_AppendOnly ==
  [][Constructed =>
       LET old == repoSpan.agent_spans
           new == repoSpan'.agent_spans
       IN /\ IsPrefix(SpanIds(old), SpanIds(new))
          /\ IF lastOp' = "startAgentSpan"
             THEN /\ Len(new) = Len(old) + 1
                  /\ new[Len(new)].status = "RUNNING"
                  /\ new[Len(new)].artifacts = <<>>
                  /\ new[Len(new)].span_id \notin {old[i].span_id : i \in 1..Len(old)}
                  /\ returned' = new[Len(new)]
             ELSE Len(new) = Len(old)]_vars

\* startAgentSpan added a second span after the first one had ended and
\* the context had been finalized.
C16_Witness ==
  /\ lastOp = "startAgentSpan"
  /\ Len(repoSpan.agent_spans) = 2
  /\ repoSpan.agent_spans[1].status = "COMPLETED"
  /\ repoSpan.agent_spans[1].artifacts # <<>>
  /\ repoSpan.end_time # Undefined

JustFinalized == lastOp \in {"finalize", "buildResponse"}

\* C17: whenever finalize (or buildResponse) ran on a context without
\* agent spans, the repo span is FAILED, its failure_reason is exactly
\* 'No agent spans produced' and it has an end_time.
C17_NoAgentSpans ==
  (JustFinalized /\ repoSpan.agent_spans = <<>>) =>
    /\ repoSpan.status = "FAILED"
    /\ repoSpan.failure_reason = Str("No agent spans produced")
    /\ repoSpan.end_time # Undefined

C17_Witness ==
  /\ lastOp = "buildResponse"
  /\ repoSpan.agent_spans = <<>>
  /\ returned.execution.status = "FAILED"

\* The text the claim describes, built span by span from the left:
\* '<agent_name>: <failure_reason>' of each FAILED span, '; ' between two.
RECURSIVE ExpectedReason(_, _, _)
ExpectedReason(spans, i, text) ==
  IF i > Len(spans) THEN text
  ELSE IF spans[i].status # "FAILED" THEN ExpectedReason(spans, i + 1, text)
       ELSE LET entry == spans[i].agent_name \o ": " \o spans[i].failure_reason.v
            IN ExpectedReason(spans, i + 1,
                              IF text = "" THEN entry ELSE text \o "; " \o entry)

\* C18: after finalize the repo span is FAILED exactly when agent_spans is
\* empty or some agent span is FAILED, and COMPLETED otherwise; when some
\* span is FAILED the failure_reason lists '<agent_name>: <failure_reason>'
\* for the FAILED spans and no other, in agent_spans order, joined by '; '.
C18_FinalizeStatus ==
  JustFinalized =>
    LET spans == repoSpan.agent_spans
    IN /\ repoSpan.status = "FAILED" <=> (spans = <<>> \/ AnyFailed(spans))
       /\ repoSpan.status \in {"FAILED", "COMPLETED"}
       /\ AnyFailed(spans) =>
            repoSpan.failure_reason = Str(ExpectedReason(spans, 1, ""))

\* finalize ran on two FAILED spans of different agents.
C18_Witness ==
  /\ lastOp = "finalize"
  /\ Len(repoSpan.agent_spans) = 2
  /\ repoSpan.agent_spans[1].status = "FAILED"
  /\ repoSpan.agent_spans[1].agent_name = "agent-2"
  /\ repoSpan.agent_spans[2].status = "FAILED"
  /\ repoSpan.agent_spans[2].agent_name = "agent-1"
  /\ repoSpan.status = "FAILED"
  /\ repoSpan.failure_reason = Str("agent-2: Broke; agent-1: Broke")

\* C19: a repo span that finalize returned with status COMPLETED has no
\* failure_reason, whatever was done to the context before (earlier
\* finalize calls included).
C19_CompletedRepoHasNoReason ==
  (lastOp = "finalize" /\ returned.status = "COMPLETED") =>
    returned.failure_reason = Undefined

\* C20: in every reachable state an agent span with status COMPLETED has
\* no failure_reason.
C20_CompletedSpanHasNoReason ==
  Constructed =>
    \A i \in 1..Len(repoSpan.agent_spans) :
      repoSpan.agent_spans[i].status = "COMPLETED" =>
        repoSpan.agent_spans[i].failure_reason = Undefined

\* C21: finalize is idempotent: a finalize that runs right after a finalize
\* (or a buildResponse, which calls it) leaves the repo span's status and
\* failure_reason and the whole agent_spans list, every span in it, as the
\* first call left them.
C21_FinalizeIdempotent ==
  [][(lastOp \in {"finalize", "buildResponse"}
        /\ lastOp' \in {"finalize", "buildResponse"}) =>
       /\ repoSpan'.status = repoSpan.status
       /\ repoSpan'.failure_reason = repoSpan.failure_reason
       /\ repoSpan'.agent_spans = repoSpan.agent_spans]_vars

\* finalize ran twice in a row on a context with a failed span.
C21_Witness ==
  /\ lastOp = "finalize"
  /\ repeated
  /\ Len(repoSpan.agent_spans) = 2
  /\ repoSpan.agent_spans[2].status = "FAILED"
  /\ repoSpan.status = "FAILED"

\* C22: buildResponse returns the caller's result unchanged together with
\* the finalized repo span, and the agent_spans of that span are the spans
\* startAgentSpan returned on this context, all of them, in call order,
\* each with the status it has, whether the execution COMPLETED or FAILED.
C22_AllSpansReturned ==
  lastOp = "buildResponse" =>
    /\ returned.result = argument
    /\ returned.execution.status \in {"COMPLETED", "FAILED"}
    /\ returned.execution.end_time # Undefined
    /\ SpanIds(returned.execution.agent_spans) = started
    /\ \A i \in 1..Len(started) :
         returned.execution.agent_spans[i].status = repoSpan.agent_spans[i].status
    /\ returned.execution.span_id = repoSpan.span_id

\* buildResponse on a failed execution: a COMPLETED and a FAILED span.
C22_Witness ==
  /\ lastOp = "buildResponse"
  /\ argument = Obj([partial |-> Bool(TRUE)])
  /\ returned.execution.status = "FAILED"
  /\ Len(started) = 2
  /\ returned.execution.agent_spans[1].status = "COMPLETED"
  /\ returned.execution.agent_spans[2].status = "FAILED"

AgentIds == {"sdk-generator", "cli-generator", "api-translator", "version-compatibility"}
Methods == {"GET", "POST"}

\* Values of the x-parent-span-id and x-execution-id entries of req.headers.
ParentSpanHeaders ==
  { Absent, Str(""), Str("span-456"), Arr(<<>>),
    Arr(<<Str("span-1"), Str("span-2")>>), Arr(<<Str(""), Str("span-2")>>) }
ExecutionIdHeaders ==
  { Absent, Str(""), Str("exec-123"), Arr(<<Str("exec-1"), Str("exec-2")>>) }

Headers(parent, execution) ==
  Obj(Fields(("x-parent-span-id" :> parent) @@ ("x-execution-id" :> execution),
             {"x-parent-span-id", "x-execution-id"}))

\* randomUUID() of extractExecutionHeaders.
FreshExecutionIds == {"uuid-execution"}

\* (Variant: the last value of a repeated header.)
GetHeaderLast(headers, name) ==
  LET value == Get(headers, name)
  IN IF IsArray(value)
     THEN IF value.v = <<>> THEN Undefined ELSE value.v[Len(value.v)]
     ELSE value

\* getHeader: Array.isArray(value) ? value[0] : value
GetHeader(headers, name) ==
  LET value == Get(headers, name)
  IN IF IsArray(value)
     THEN IF value.v = <<>> THEN Undefined ELSE value.v[1]
     ELSE value

ExtractExecutionHeaders(headers, uuid) ==
  LET parentSpanId == GetHeader(headers, "x-parent-span-id")
  IN IF ~Truthy(parentSpanId) THEN Null
     ELSE Obj([executionId |-> Or(GetHeader(headers, "x-execution-id"), Str(uuid)),
               parentSpanId |-> parentSpanId])

\* createArtifactRef(label, content)
CreateArtifactRef(label) ==
  [artifact_id |-> "artifact-1", label |-> label, content_type |-> "application/json"]

ArtifactLabel(agent) ==
  CASE agent = "sdk-generator" -> "sdk-generation-result"
    [] agent = "cli-generator" -> "cli-generation-result"
    [] agent = "api-translator" -> "api-translation-result"
    [] OTHER -> "compatibility-analysis-result"

FailureMessage(agent) ==
  CASE agent = "sdk-generator" -> "SDK generation failed"
    [] agent = "cli-generator" -> "CLI generation failed"
    [] agent = "api-translator" -> "API translation failed"
    [] OTHER -> "Compatibility analysis failed"

DefaultReason(agent) ==
  CASE agent = "cli-generator" -> "Generation failed"
    [] agent = "api-translator" -> "Translation failed"
    [] OTHER -> "Analysis failed"

\* What the awaited agent does: it returns a result (for the SDK generator
\* a status code and a body text) or it rejects.
AgentOutcomes ==
  { [kind |-> "returned", success |-> TRUE, errors |-> <<>>, json |-> TRUE],
    [kind |-> "returned", success |-> TRUE, errors |-> <<>>, json |-> FALSE],
    [kind |-> "returned", success |-> FALSE, errors |-> <<>>, json |-> TRUE],
    [kind |-> "returned", success |-> FALSE, errors |-> <<"bad input", "no schema">>,
     json |-> TRUE],
    [kind |-> "threw", message |-> "agent crashed"] }

\* What the awaited readBody gives: a JSON text, another text, or a
\* rejection when the request stream fails.
Bodies == {"json", "text", "stream error"}

ErrorBody(code, message) ==
  Obj([success |-> Bool(FALSE),
       error |-> Obj([code |-> Str(code), message |-> Str(message)])])

PlainResponse(statusCode, body) ==
  [statusCode |-> statusCode, envelope |-> FALSE, body |-> body]

EnvelopeResponse(statusCode, body) ==
  [statusCode |-> statusCode, envelope |-> TRUE, body |-> body]

HasContext == repoSpan # NoSpan

\* The request is a POST to the endpoint of one of the four agents.
AgentInvocation(r) == r.method = "POST" /\ r.agent \in AgentIds

\* (Variant: the catch block builds the response without failing the span.)
CaughtWithoutFailing(repo, message, t) == Finalized(repo, t)

\* catch (error): failAgentSpan(agentSpan, message), then buildResponse.
Caught(repo, message, t) ==
  Finalized([repo EXCEPT !.agent_spans[1] = FailedSpan(@, message, t)], t)

\* The catch block of a handler, for an error with the given message.
Catch(message) ==
  \E t \in Instants :
    IF HasContext
    THEN LET body == ErrorBody("INTERNAL_ERROR", FailureMessage(req.agent))
         IN /\ repoSpan' = Caught(repoSpan, message, t)
            /\ returned' = Response(body, repoSpan')
            /\ argument' = body
            /\ lastOp' = "buildResponse"
            /\ sent' = EnvelopeResponse(500, returned')
    ELSE /\ sent' = PlainResponse(500, ErrorBody("INTERNAL_ERROR", FailureMessage(req.agent)))
         /\ UNCHANGED <<repoSpan, returned, argument, lastOp>>

\* handleRequest routes the request; a handler runs up to its await of
\* readBody: it extracts the execution headers, answers 400 when only the
\* execution id came, and otherwise creates the context and the agent span
\* when the headers were extracted.
Receive ==
  /\ stage = "idle"
  /\ \E method \in Methods, agent \in AgentIds \cup {"unknown"},
        parent \in ParentSpanHeaders, execution \in ExecutionIdHeaders,
        uuid \in FreshExecutionIds, t \in Instants :
       LET r == [method |-> method, agent |-> agent,
                 headers |-> Headers(parent, execution)]
           extracted == ExtractExecutionHeaders(r.headers, uuid)
       IN /\ req' = r
          /\ IF ~AgentInvocation(r)
             THEN /\ sent' = PlainResponse(404, ErrorBody("NOT_FOUND", "Route not found"))
                  /\ stage' = "responded"
                  /\ execHeaders' = Undefined
                  /\ UNCHANGED execVars
             ELSE /\ execHeaders' = extracted
                  /\ IF Truthy(Get(r.headers, "x-execution-id")) /\ extracted = Null
                     THEN /\ sent' = PlainResponse(400,
                                       ErrorBody("MISSING_PARENT_SPAN",
                                                 "X-Parent-Span-Id header is required"))
                          /\ stage' = "responded"
                          /\ UNCHANGED execVars
                     ELSE /\ sent' = NoResponse
                          /\ stage' = "reading"
                          /\ IF extracted = Null
                             THEN UNCHANGED execVars
                             ELSE LET e == extracted.v.executionId.v
                                      p == extracted.v.parentSpanId.v
                                      repo == NewRepoSpan(e, p, t)
                                      span == NewAgentSpan(repo, agent, Undefined, t)
                                  IN /\ executionId' = e
                                     /\ given' = [executionId |-> e, parentSpanId |-> p]
                                     /\ repoSpan' = [repo EXCEPT !.agent_spans = Push(@, span)]
                                     /\ started' = <<span.span_id>>
                                     /\ returned' = span
                                     /\ lastOp' = "startAgentSpan"
                                     /\ UNCHANGED <<argument, repeated>>
  /\ invoked' = FALSE
  /\ UNCHANGED <<parserVars, memo, asyncVars>>

\* readBody settles. The handler parses the body where it does (all but the
\* SDK generator) and calls the agent, or lands in its catch block.
ReadBody ==
  /\ stage = "reading"
  /\ \E body \in Bodies :
       IF body = "stream error" \/ (body = "text" /\ req.agent # "sdk-generator")
       THEN /\ Catch(IF body = "text" THEN "Unexpected token" ELSE "aborted")
            /\ stage' = "responded"
            /\ UNCHANGED invoked
       ELSE /\ invoked' = TRUE
            /\ stage' = "handling"
            /\ UNCHANGED <<repoSpan, returned, argument, lastOp, sent>>
  /\ UNCHANGED <<req, execHeaders, executionId, given, repeated, started>>
  /\ UNCHANGED <<parserVars, memo, asyncVars>>

\* The agent settles. The handler attaches the result to the agent span,
\* completes or fails the span, builds and writes the response; an agent
\* that rejects, or an SDK generator body that is no JSON, lands in catch.
AgentSettles ==
  /\ stage = "handling"
  /\ \E o \in AgentOutcomes, t \in Instants :
       IF o.kind = "threw"
       THEN Catch(o.message)
       ELSE LET sdk == req.agent = "sdk-generator"
                agentResult == Obj([success |-> Bool(o.success)])
                reason == IF sdk THEN "HTTP 500"
                          ELSE IF o.errors = <<>> THEN DefaultReason(req.agent)
                               ELSE Join(o.errors, "; ")
                statusCode == IF o.success THEN 200 ELSE IF sdk THEN 500 ELSE 400
            IN IF ~HasContext
               THEN /\ sent' = PlainResponse(statusCode, agentResult)
                    /\ UNCHANGED <<repoSpan, returned, argument, lastOp>>
               ELSE LET attached == AttachedSpan(repoSpan.agent_spans[1],
                                                 CreateArtifactRef(ArtifactLabel(req.agent)))
                        ended == IF o.success THEN CompletedSpan(attached, t)
                                 ELSE FailedSpan(attached, reason, t)
                        repo == [repoSpan EXCEPT !.agent_spans[1] = ended]
                    IN IF sdk /\ ~o.json
                       THEN /\ repoSpan' = Caught(repo, "Unexpected token", t)
                            /\ argument' = ErrorBody("INTERNAL_ERROR",
                                                     FailureMessage(req.agent))
                            /\ returned' = Response(argument', repoSpan')
                            /\ lastOp' = "buildResponse"
                            /\ sent' = EnvelopeResponse(500, returned')
                       ELSE /\ repoSpan' = Finalized(repo, t)
                            /\ argument' = agentResult
                            /\ returned' = Response(agentResult, repoSpan')
                            /\ lastOp' = "buildResponse"
                            /\ sent' = EnvelopeResponse(statusCode, returned')
  /\ stage' = "responded"
  /\ UNCHANGED <<req, execHeaders, invoked, executionId, given, repeated, started>>
  /\ UNCHANGED <<parserVars, memo, asyncVars>>

\* The response is on the wire; the request and its context are gone.
Respond ==
  /\ stage = "responded"
  /\ stage' = "idle"
  /\ req' = NoRequest
  /\ execHeaders' = Undefined
  /\ invoked' = FALSE
  /\ sent' = NoResponse
  /\ executionId' = Undefined
  /\ repoSpan' = NoSpan
  /\ given' = NoArguments
  /\ lastOp' = "none"
  /\ returned' = Undefined
  /\ argument' = Undefined
  /\ repeated' = FALSE
  /\ started' = <<>>
  /\ UNCHANGED <<parserVars, memo, asyncVars>>

ServerNext == Receive \/ ReadBody \/ AgentSettles \/ Respond

ServerSpec == Init /\ [][ServerNext]_vars

\* The value of a header as a caller states it: the entry itself, or the
\* first element when the entry is an array.
FirstValue(headers, name) ==
  LET entry == IF In(name, headers) THEN headers.v[name] ELSE Undefined
  IN IF entry.t = "arr" THEN (IF Len(entry.v) = 0 THEN Undefined ELSE Head(entry.v))
     ELSE entry

MissingOrEmpty(value) == value = Undefined \/ value = Str("")

FreshExecutionId(value) ==
  /\ value # Str("")
  /\ \E uuid \in FreshExecutionIds : value = Str(uuid)

\* The handler of an agent endpoint extracted the headers of the request
\* in flight.
Extracted == req # NoRequest /\ AgentInvocation(req)

\* C24 as stated: null exactly when x-parent-span-id is missing or empty;
\* otherwise the parent span id and the x-execution-id value, or a fresh
\* execution id when x-execution-id is absent.
C24_FreshOnlyWhenAbsent ==
  Extracted =>
    LET parent == FirstValue(req.headers, "x-parent-span-id")
        execution == FirstValue(req.headers, "x-execution-id")
    IN /\ execHeaders = Null <=> MissingOrEmpty(parent)
       /\ execHeaders # Null =>
            /\ execHeaders.v.parentSpanId = parent
            /\ IF ~In("x-execution-id", req.headers)
               THEN FreshExecutionId(execHeaders.v.executionId)
               ELSE execHeaders.v.executionId = execution

\* C24: extractExecutionHeaders returns null exactly when x-parent-span-id
\* (its first element when an array) is missing or empty, whatever
\* x-execution-id is; otherwise it returns that parent span id and the
\* x-execution-id value (first element when an array), or a fresh non-empty
\* execution id when x-execution-id is absent or empty.
C24_ExtractExecutionHeaders ==
  Extracted =>
    LET parent == FirstValue(req.headers, "x-parent-span-id")
        execution == FirstValue(req.headers, "x-execution-id")
    IN /\ execHeaders = Null <=> MissingOrEmpty(parent)
       /\ execHeaders # Null =>
            /\ execHeaders.v.parentSpanId = parent
            /\ IF MissingOrEmpty(execution)
               THEN FreshExecutionId(execHeaders.v.executionId)
               ELSE execHeaders.v.executionId = execution

\* Headers extracted from a repeated x-parent-span-id and an empty
\* x-execution-id.
C24_Witness ==
  /\ Extracted
  /\ Get(req.headers, "x-parent-span-id") = Arr(<<Str("span-1"), Str("span-2")>>)
  /\ Get(req.headers, "x-execution-id") = Str("")
  /\ execHeaders # Null
  /\ execHeaders.v.parentSpanId = Str("span-1")
  /\ execHeaders.v.executionId = Str("uuid-execution")

\* C25: no agent is called for a POST request without an X-Parent-Span-Id
\* header, and the response of every request for which an agent was called
\* carries an execution envelope with a repo span.
C25_ParentSpanRequired ==
  invoked =>
    /\ ~MissingOrEmpty(FirstValue(req.headers, "x-parent-span-id"))
    /\ sent # NoResponse => (sent.envelope /\ sent.body.execution.type = "repo")

\* C26: every response that carries an execution envelope, from the
\* success path or from a catch block of any of the four handlers, holds
\* exactly one agent span, the span of the agent addressed, which is
\* COMPLETED or FAILED and has an end_time, under a repo span that is
\* COMPLETED or FAILED.
C26_FinishedAgentSpan ==
  (sent # NoResponse /\ sent.envelope) =>
    LET execution == sent.body.execution
    IN /\ Len(execution.agent_spans) = 1
       /\ execution.agent_spans[1].agent_name = req.agent
       /\ execution.agent_spans[1].status \in {"COMPLETED", "FAILED"}
       /\ execution.agent_spans[1].end_time # Undefined
       /\ execution.status \in {"COMPLETED", "FAILED"}
       /\ execution.end_time # Undefined

\* The envelope of a request whose body could not be read: the agent was
\* never called and the span was failed in the catch block.
C26_Witness ==
  /\ sent # NoResponse
  /\ sent.envelope
  /\ sent.statusCode = 500
  /\ ~invoked
  /\ req.agent = "cli-generator"
  /\ sent.body.execution.agent_spans[1].status = "FAILED"
  /\ sent.body.execution.agent_spans[1].artifacts = <<>>

\* ------------------------------------------------------------------------
\* Event addressing and per-chunk format choice of the stream parsers
\* ------------------------------------------------------------------------
\* The events whose variant the specification addresses by an index.
Addressed(event) ==
  \/ event.type = "content_block_delta"
  \/ event.type = "content_block_start"

\* C27: every content_block_delta and every tool-use content_block_start
\* of a parsed chunk, in every HuggingFace format and in the
\* OpenAI-compatible format, carries an index, a number that is 0 when
\* the choice or tool call omits it.
C27_EveryDeltaIndexed ==
  (pc = "parsed" /\ ~result.raised) =>
    \A i \in 1..Len(result.chunks) :
      Addressed(result.chunks[i]) =>
        /\ "index" \in DOMAIN result.chunks[i]
        /\ result.chunks[i].index.t = "num"

\* The events of a chunk decoded under one wire format alone.
DecodedAs(format, c) ==
  CASE format = "tgi" -> HFWalkChoices(Get(c, "choices").v, 1, <<>>).chunks
    [] format = "token" -> HFTokenEvents(Get(c, "token"))
    [] OTHER -> <<>>

\* The one format of a chunk, read from the fields of that chunk.
FormatOf(c) ==
  IF HasChoicesArray(c) THEN "tgi"
  ELSE IF In("token", c) THEN "token"
  ELSE "other"

\* C28: the HuggingFace parseStreamChunk decodes every chunk under exactly
\* one format, chosen from the fields of that chunk whatever was parsed
\* before: its events are those of that format alone, and the token of a
\* chunk that also has an array choices field produces no event.
C28_OneFormatPerChunk ==
  (Parsed("huggingface") /\ ~result.raised) =>
    /\ result.chunks = DecodedAs(FormatOf(chunk), chunk)
    /\ (HasChoicesArray(chunk) /\ In("token", chunk)) =>
         \A i \in 1..Len(result.chunks) :
           \A j \in 1..Len(HFTokenEvents(Get(chunk, "token"))) :
             result.chunks[i] # HFTokenEvents(Get(chunk, "token"))[j]

\* A chunk with a token and a non-empty choices array, decoded as TGI.
C28_Witness ==
  /\ Parsed("huggingface")
  /\ ~result.raised
  /\ HasChoicesArray(chunk)
  /\ Get(chunk, "token") = TokenHello
  /\ Len(result.chunks) >= 1
  /\ \A i \in 1..Len(result.chunks) :
       result.chunks[i].type = "content_block_delta" =>
         result.chunks[i].delta.text # Str("Hello")

====
